---- MODULE Spec2Model ----
(***************************************************************************)
(* A model of class ADT (src/index.js, lines 70-420): the session fields,  *)
(* the status cache with its 'set' and 'expired' listeners, init(), the    *)
(* login()/getSyncInfo() chain, setState(), and the commands              *)
(* armBeamsOnly() and disarmSite() with their resynchronisation.           *)
(*                                                                         *)
(* The specifications:                                                     *)
(*   SpecCtor  the constructor, as the platform invokes it (line 13), over *)
(*             the configurations of ConfigSpace.  It ends in a throw for  *)
(*             every configuration: Error for a missing parameter, and     *)
(*             otherwise TypeError at line 103, where                      *)
(*             this.attemptToRecoverFromFailure is undefined; init() is    *)
(*             never reached from it.                                      *)
(*   Spec      the methods of the exported class applied to a receiver     *)
(*             that carries the fields the constructor assigns in lines    *)
(*             84-101.  The callers are the owner of the instance (init,   *)
(*             login, setState), the remote service (the responses) and a  *)
(*             holder of the public statusCache field (CacheSetExt).  The  *)
(*             clock is left out: an entry may expire at any moment.       *)
(*   SpecTTL   the receiver under the clock of the cache: init(), the      *)
(*             writes to the cache, the clock ticks and the check timer.   *)
(*             SpecTTLFair adds that the timers keep running.              *)
(*   SpecCmd   the receiver with its session and its commands: login(),    *)
(*             armBeamsOnly(), disarmSite(), getUserPreferences(),         *)
(*             getState(), and the responses of the remote service.        *)
(*                                                                         *)
(* JavaScript name resolution is part of the model: an identifier that no  *)
(* declaration of the module binds raises ReferenceError when evaluated    *)
(* (Resolves: STATUS, lines 122, 127, 135, 146; clientImei, line 395),     *)
(* and a method the class                                                  *)
(* does not define is undefined on the instance (HasMethod:                *)
(* attemptToRecoverFromFailure, line 103; sendStateToDevice, line 169).    *)
(* An await is a step boundary; what runs between two awaits is one step.  *)
(***************************************************************************)
EXTENDS Integers, Sequences, FiniteSets, TLC

(***************************************************************************)
(* Bounds of the model.                                                    *)
(***************************************************************************)
\* configured cacheTTL values are 0..MaxTTL seconds (and absent)
MaxTTL == 2
\* clock ticks per second: a set may fall between two runs of the check timer
TicksPerSecond == 2
\* requested and reported arming states are 0..MaxArmingState
MaxArmingState == 3

(***************************************************************************)
(* Program constants.                                                      *)
(***************************************************************************)
\* config.cacheTTL || 5
DefaultTTL == 5
\* checkperiod: 1
CheckPeriod == 1
\* currentStatus.alarm.armingState === 3
NOT_READY == 3
\* currentStatus.alarm.faultStatus === 1
FAULT == 1

(***************************************************************************)
(* JavaScript values.  undefined is the string Undef where the other       *)
(* values are strings, and the empty sequence None where they are numbers. *)
(***************************************************************************)
Undef == "undefined"
None == << >>
Some(x) == <<x>>

\* !v for a string-valued field: undefined and '' are falsy
FalsyStr(v) == v \in {Undef, ""}
\* !v for an optional number: undefined and 0 are falsy
FalsyNum(v) == v = None \/ v = Some(0)

(***************************************************************************)
(* Name resolution.                                                        *)
(***************************************************************************)
\* the module-level bindings of lib/adt (lines 70-78, 80)
ModuleBindings ==
    {"events", "cheerio", "request", "nodeCache",
     "BASE_URL", "LOGIN_PATH", "SYNC_INFO", "STATE_INFO", "ADT"}
Resolves(name) == name \in ModuleBindings

\* the methods of class ADT (lines 81-414) and those it inherits from EventEmitter
ClassMethods ==
    {"constructor", "init", "getState", "setState", "login", "getSyncInfo",
     "getStateInfo", "getUserPreferences", "getStatusFromDevice",
     "armBeamsOnly", "disarmSite"}
InheritedMethods == {"on", "emit"}
HasMethod(name) == name \in ClassMethods \cup InheritedMethods

(***************************************************************************)
(* Configuration.                                                          *)
(***************************************************************************)
ConfigSpace ==
    [username : {Undef, "", "a"},
     password : {Undef, "", "b"},
     cacheTTL : {None} \cup {Some(n) : n \in 0..MaxTTL},
     keypadPin : {Undef, "1234"}]

\* this.cacheTTL = config.cacheTTL || 5
CacheTTLOf(config) ==
    IF FalsyNum(config.cacheTTL) THEN DefaultTTL ELSE config.cacheTTL[1]

\* a variant of the check: both parameters have to be missing
MissingBoth(config) == FalsyStr(config.username) /\ FalsyStr(config.password)

\* !this.username || !this.password
MissingParameter(config) == FalsyStr(config.username) \/ FalsyStr(config.password)

(***************************************************************************)
(* RemoteState values, as far as the code reads them: the state object or  *)
(* undefined, and in it the alarm section: undefined, the stub {} or an    *)
(* object with armingState and faultStatus.                                *)
(***************************************************************************)
ArmingStates == 0..MaxArmingState
FaultStatuses == {0, FAULT}

UndefAlarm == [kind |-> "undefined", armingState |-> 0, faultStatus |-> 0]
EmptyAlarm == [kind |-> "empty", armingState |-> 0, faultStatus |-> 0]
FullAlarm(a, f) == [kind |-> "full", armingState |-> a, faultStatus |-> f]
AlarmValues ==
    {UndefAlarm, EmptyAlarm}
        \cup {FullAlarm(a, f) : a \in ArmingStates, f \in FaultStatuses}

UndefState == [kind |-> "undefined", alarm |-> UndefAlarm]
ObjState(alarm) == [kind |-> "object", alarm |-> alarm]
StateValues == {UndefState} \cup {ObjState(a) : a \in AlarmValues}

\* JavaScript truthiness: every object is truthy, the stub {} included
TruthyState(state) == state.kind = "object"
TruthyAlarm(alarm) == alarm.kind \in {"empty", "full"}
\* alarm.armingState and alarm.faultStatus: undefined on the stub {}
ArmingStateOf(alarm) == IF alarm.kind = "full" THEN Some(alarm.armingState) ELSE None
FaultStatusOf(alarm) == IF alarm.kind = "full" THEN Some(alarm.faultStatus) ELSE None

(***************************************************************************)
(* The status cache (node-cache, one key): the entry, its value and its    *)
(* age in clock ticks since the set that stored it.                        *)
(***************************************************************************)
EmptyCache == [present |-> FALSE, value |-> UndefState, age |-> 0]
\* set(key, value): stores the value and restarts the entry's ttl
NodeCacheSet(value) == [present |-> TRUE, value |-> value, age |-> 0]
\* get(key): the value, or undefined when there is no entry
NodeCacheGet(c) == IF c.present THEN c.value ELSE UndefState
\* del(key)
NodeCacheDel(c) == EmptyCache

VARIABLES
    config,       \* the configuration object handed to the constructor
    ctor,         \* where the constructor stands: "new", "fields", or how it ended
    cacheTTL,     \* this.cacheTTL
    keypadPin,    \* this.keypadPin
    hasCache,     \* this.statusCache exists
    cache,        \* the entry of this.statusCache
    phase,        \* clock ticks since the cache's check timer last ran
    errorListeners, \* listeners of this ADT's 'error' event
    cacheListeners, \* the 'set' and 'expired' listeners of init() are registered
    token, userId, siteId,  \* the session fields
    targetState,  \* this.targetState: None or Some(state)
    initPc,       \* init(): "idle", "login" (awaiting login()), "done", "failed"
    initError,    \* the error init() caught (line 140): "none", "Login failed", ...
    chain,        \* the login() call in flight: who called it and what it awaits
    cmd,          \* the armBeamsOnly(), disarmSite() or getUserPreferences() call in flight
    refreshes,    \* getStatusFromDevice() calls of the 'expired' listener, modulo 2
    intervened,   \* a caller outside the class has acted on the receiver
    last          \* what the last step did (see Eff)

vars ==
    <<config, ctor, cacheTTL, keypadPin, hasCache, cache, phase, errorListeners,
      cacheListeners, token, userId, siteId, targetState, initPc, initError, chain,
      cmd, refreshes, intervened, last>>

(***************************************************************************)
(* The record of a step: the operation, its argument and result, the       *)
(* events the ADT emitted, the remote request and the getStatusFromDevice  *)
(* calls it issued, and what it did to the cache.                          *)
(***************************************************************************)
NoResp == [ok |-> FALSE, status |-> "", token |-> Undef, userId |-> Undef,
           hasSites |-> FALSE, sites |-> << >>, success |-> FALSE,
           state |-> UndefState]
Eff ==
    [op |-> "none", arg |-> None, ret |-> "none", emits |-> << >>,
     remote |-> "none", fetches |-> 0, stored |-> FALSE, value |-> UndefState,
     caught |-> FALSE, unhandled |-> FALSE, expired |-> FALSE, age |-> 0,
     siteBefore |-> Undef, resp |-> NoResp,
     tokenBefore |-> Undef, userBefore |-> Undef, payload |-> << >>,
     arm |-> "none", pin |-> Undef]

Count(seq, e) == Cardinality({i \in DOMAIN seq : seq[i] = e})

IdleChain == [by |-> "none", pc |-> "idle", token |-> Undef, userId |-> Undef]

IdleCmd == [by |-> "none", pc |-> "idle"]

(***************************************************************************)
(* constructor(config, log), lines 81-106.                                 *)
(***************************************************************************)
\* the constructor reaches line 103 and evaluates
\* this.attemptToRecoverFromFailure.bind(this)
RecoveryBound == HasMethod("attemptToRecoverFromFailure")

Construct ==
    /\ ctor = "new"
    /\ cacheTTL' = CacheTTLOf(config)
    /\ keypadPin' = config.keypadPin
    /\ IF MissingParameter(config)
       THEN \* throw new Error('Missing parameter. ...')
            /\ ctor' = "Error"
            /\ UNCHANGED <<hasCache, errorListeners, initPc, chain>>
            /\ last' = [Eff EXCEPT !.op = "constructor", !.ret = "Error"]
       ELSE /\ hasCache' = TRUE
            /\ IF RecoveryBound
               THEN \* this.on('error', ...); this.init() runs up to the
                    \* request of login()
                    /\ ctor' = "returned"
                    /\ errorListeners' = errorListeners + 1
                    /\ initPc' = "login"
                    /\ chain' = [IdleChain EXCEPT !.by = "init", !.pc = "login"]
                    /\ last' = [Eff EXCEPT !.op = "constructor", !.ret = "this",
                                           !.remote = "login"]
               ELSE \* undefined.bind: TypeError at line 103
                    /\ ctor' = "TypeError"
                    /\ UNCHANGED <<errorListeners, initPc, chain>>
                    /\ last' = [Eff EXCEPT !.op = "constructor", !.ret = "TypeError"]
    /\ cacheListeners' = (ctor' = "returned")
    /\ UNCHANGED <<config, cache, phase, token, userId, siteId, targetState,
                   initError, cmd, refreshes, intervened>>

InitCtor ==
    /\ config \in ConfigSpace
    /\ ctor = "new"
    /\ cacheTTL = 0
    /\ keypadPin = Undef
    /\ hasCache = FALSE
    /\ cache = EmptyCache
    /\ phase = 0
    /\ errorListeners = 0
    /\ cacheListeners = FALSE
    /\ token = Undef /\ userId = Undef /\ siteId = Undef
    /\ targetState = None
    /\ initPc = "idle"
    /\ initError = "none"
    /\ chain = IdleChain
    /\ cmd = IdleCmd
    /\ refreshes = 0
    /\ intervened = FALSE
    /\ last = Eff

NextCtor == Construct

SpecCtor == InitCtor /\ [][NextCtor]_vars

(***************************************************************************)
(* The responses of the remote service.                                    *)
(***************************************************************************)
\* GET /auth/login -> {status, token, user: {id}}, or the request fails
LoginResponses ==
    {[NoResp EXCEPT !.ok = FALSE],
     [NoResp EXCEPT !.ok = TRUE, !.status = "FAILED"],
     [NoResp EXCEPT !.ok = TRUE, !.status = "FAILED", !.token = "T1", !.userId = "7"],
     [NoResp EXCEPT !.ok = TRUE, !.status = "SUCCESS"],
     [NoResp EXCEPT !.ok = TRUE, !.status = "SUCCESS", !.token = "T1", !.userId = "7"]}

\* POST /device/getSyncInfo -> {status, masterSites: [{id}, ...]}, or the request fails
SiteLists == {<< >>, <<"42">>, <<"43", "42">>}
SyncResponses ==
    {[NoResp EXCEPT !.ok = FALSE],
     [NoResp EXCEPT !.ok = TRUE, !.status = "SUCCESS"]}
        \cup {[NoResp EXCEPT !.ok = TRUE, !.status = st, !.hasSites = TRUE, !.sites = l] :
                st \in {"SUCCESS", "FAILED"}, l \in SiteLists}

(***************************************************************************)
(* getStatusFromDevice(), lines 318-323: builds a local stub and returns   *)
(* nothing, so the promise resolves with undefined.                        *)
(***************************************************************************)
GetStatusFromDevice == UndefState

(***************************************************************************)
(* The 'set' listener of init(), lines 114-116: the events it emits.       *)
(***************************************************************************)
\* a variant: the notification is emitted by the listener and once more
OnSetTwice(state) ==
    IF TruthyState(state) /\ TruthyAlarm(state.alarm)
    THEN <<"state", "state">> ELSE << >>

OnSet(state) ==
    IF TruthyState(state) /\ TruthyAlarm(state.alarm) THEN <<"state">> ELSE << >>

\* line 115: the argument of each 'state' event is the value handed to set
OnSetPayload(state) == [i \in DOMAIN OnSet(state) |-> state]

(***************************************************************************)
(* this.statusCache.set(STATUS, state), lines 122 and 135: evaluating the  *)
(* argument STATUS comes first.                                            *)
(***************************************************************************)
StatusCacheSet(c, state, listening) ==
    IF Resolves("STATUS")
    THEN [threw |-> FALSE, cache |-> NodeCacheSet(state),
          emits |-> IF listening THEN OnSet(state) ELSE << >>]
    ELSE [threw |-> TRUE, cache |-> c, emits |-> << >>]

(***************************************************************************)
(* getState(), lines 145-147.                                              *)
(***************************************************************************)
GetState(c) ==
    IF Resolves("STATUS")
    THEN [threw |-> FALSE, value |-> NodeCacheGet(c)]
    ELSE [threw |-> TRUE, value |-> UndefState]

(***************************************************************************)
(* setState(status), lines 149-172: the new targetState, what the call     *)
(* returns or throws, and whether a command went out.                      *)
(***************************************************************************)
SetState(status, c) ==
    LET cur == GetState(c) IN
    IF cur.threw
    THEN [targetState |-> Some(status), ret |-> "ReferenceError", sent |-> FALSE]
    ELSE IF /\ TruthyState(cur.value)
            /\ TruthyAlarm(cur.value.alarm)
            /\ ArmingStateOf(cur.value.alarm) = Some(status)
    THEN [targetState |-> None, ret |-> "null", sent |-> FALSE]
    ELSE IF /\ TruthyState(cur.value)
            /\ TruthyAlarm(cur.value.alarm)
            /\ ArmingStateOf(cur.value.alarm) = Some(NOT_READY)
            /\ FaultStatusOf(cur.value.alarm) = Some(FAULT)
    THEN [targetState |-> None, ret |-> "Error", sent |-> FALSE]
    ELSE IF HasMethod("sendStateToDevice")
    THEN [targetState |-> Some(status), ret |-> "null", sent |-> TRUE]
    ELSE [targetState |-> Some(status), ret |-> "TypeError", sent |-> FALSE]

(***************************************************************************)
(* getSyncInfo(), lines 208-240, once its request has ended with resp:     *)
(* whether it throws, and this.siteId.                                     *)
(***************************************************************************)
\* a variant: the site is stored before the response is checked
GetSyncInfoStoresFirst(resp, site) ==
    IF resp.ok /\ resp.status = "SUCCESS" /\ resp.hasSites /\ Len(resp.sites) > 0
    THEN [threw |-> FALSE, siteId |-> resp.sites[1]]
    ELSE [threw |-> TRUE,
          siteId |-> IF resp.hasSites /\ Len(resp.sites) > 0
                     THEN resp.sites[1] ELSE Undef]

GetSyncInfo(resp, site) ==
    IF resp.ok /\ resp.status = "SUCCESS" /\ resp.hasSites /\ Len(resp.sites) > 0
    THEN [threw |-> FALSE, siteId |-> resp.sites[1]]
    ELSE [threw |-> TRUE, siteId |-> site]

(***************************************************************************)
(* login(), lines 193-205, once its request has ended with resp: whether   *)
(* it goes on to getSyncInfo() and the session fields it stores first.     *)
(***************************************************************************)
\* a variant: the session fields are stored before the response is checked
LoginStoresFirst(resp, tok, uid) ==
    IF resp.ok /\ resp.status = "SUCCESS" /\ ~FalsyStr(resp.token)
    THEN [threw |-> FALSE, token |-> resp.token, userId |-> resp.userId]
    ELSE [threw |-> TRUE,
          token |-> IF resp.ok THEN resp.token ELSE tok,
          userId |-> IF resp.ok THEN resp.userId ELSE uid]

Login(resp, tok, uid) ==
    IF resp.ok /\ resp.status = "SUCCESS" /\ ~FalsyStr(resp.token)
    THEN [threw |-> FALSE, token |-> resp.token, userId |-> resp.userId]
    ELSE [threw |-> TRUE, token |-> tok, userId |-> uid]

(***************************************************************************)
(* The responses to the commands and to the queries.                       *)
(***************************************************************************)
\* POST /device/armSite -> {success}, or the request fails
ArmResponses ==
    {[NoResp EXCEPT !.ok = FALSE],
     [NoResp EXCEPT !.ok = TRUE],
     [NoResp EXCEPT !.ok = TRUE, !.success = TRUE]}

\* POST /device/getStateInfo -> {status, ...the state of the site}
StateInfoStates == {ObjState(FullAlarm(a, 0)) : a \in {0, 1}}
StateInfoResponses ==
    {[NoResp EXCEPT !.ok = FALSE],
     [NoResp EXCEPT !.ok = TRUE, !.status = "FAILED"]}
        \cup {[NoResp EXCEPT !.ok = TRUE, !.status = "SUCCESS", !.state = st] :
                st \in StateInfoStates}

\* POST /user/getUserPreferences -> {success}
PrefsResponses == ArmResponses

(***************************************************************************)
(* armBeamsOnly(), lines 325-369, and disarmSite(), lines 372-414.         *)
(***************************************************************************)
\* lines 328-355: the options of armBeamsOnly(); every value in them is a
\* literal or a field of this, so the request of line 357 goes out
ArmBeamsOnly ==
    [threw |-> FALSE, sent |-> TRUE, arm |-> "true", pin |-> Undef]

\* lines 375-400: the options of disarmSite(); the value of imei (line 395)
\* is the identifier clientImei, evaluated while the object is built
DisarmSite(pin) ==
    IF Resolves("clientImei")
    THEN [threw |-> FALSE, sent |-> TRUE, arm |-> "false", pin |-> pin]
    ELSE [threw |-> TRUE, sent |-> FALSE, arm |-> "none", pin |-> Undef]

\* lines 359 and 404: the command goes on to the resynchronisation iff the
\* request has ended with a truthy success
ArmSiteSucceeded(resp) == resp.ok /\ resp.success

\* getStateInfo(), lines 268-278, once its request has ended with resp
GetStateInfo(resp) ==
    IF resp.ok /\ resp.status = "SUCCESS"
    THEN [threw |-> FALSE, value |-> resp.state]
    ELSE [threw |-> TRUE, value |-> UndefState]

\* getUserPreferences(), lines 304-314, once its request has ended with resp
GetUserPreferences(resp) == [threw |-> ~(resp.ok /\ resp.success)]

\* lines 361-362 and 406-407: the value of getStateInfo() is dropped and the
\* command returns the response of its own request; the cache is as it was
CommandResync(c, info) == c

(***************************************************************************)
(* init() after login() has ended, lines 133-142.                          *)
(***************************************************************************)
\* a variant: 'init' is emitted after the try block, whatever happened in it
InitAlwaysEmits(loginThrew, c, listening) ==
    IF loginThrew
    THEN [pc |-> "failed", error |-> "Login failed", cache |-> c,
          emits |-> <<"init">>, fetches |-> 0, remote |-> "none",
          state |-> UndefState]
    ELSE [pc |-> "failed", error |-> "ReferenceError", cache |-> c,
          emits |-> <<"init">>, fetches |-> 1, remote |-> "none",
          state |-> GetStatusFromDevice]

InitAfterLogin(loginThrew, c, listening) ==
    IF loginThrew
    THEN [pc |-> "failed", error |-> "Login failed", cache |-> c, emits |-> << >>,
          fetches |-> 0, remote |-> "none", state |-> UndefState]
    ELSE LET state == GetStatusFromDevice
             w == StatusCacheSet(c, state, listening)
         IN  IF w.threw
             THEN [pc |-> "failed", error |-> "ReferenceError", cache |-> c,
                   emits |-> << >>, fetches |-> 1, remote |-> "none",
                   state |-> state]
             ELSE [pc |-> "done", error |-> "none", cache |-> w.cache,
                   emits |-> w.emits \o <<"init">>, fetches |-> 1, remote |-> "none",
                   state |-> state]

(***************************************************************************)
(* The 'expired' listener of init(), lines 117-130, run to the end of its  *)
(* promise chain: c is the cache once node-cache has dropped the entry.    *)
(***************************************************************************)
\* a variant: the catch handler also announces a state
ExpiredCatchNotifies(c) ==
    [cache |-> c, emits |-> <<"state">>, unhandled |-> TRUE]

ExpiredCatch(c) ==
    IF Resolves("STATUS")
    THEN [cache |-> NodeCacheDel(c), emits |-> <<"error">>,
          unhandled |-> errorListeners = 0]
    ELSE [cache |-> c, emits |-> << >>, unhandled |-> TRUE]

ExpiredHandler(c) ==
    LET state == GetStatusFromDevice
        w == StatusCacheSet(c, state, TRUE)
    IN  IF ~w.threw
        THEN [cache |-> w.cache, emits |-> w.emits, fetches |-> 1,
              caught |-> FALSE, unhandled |-> FALSE, stored |-> TRUE,
              state |-> state]
        ELSE LET k == ExpiredCatch(c) IN
             [cache |-> k.cache, emits |-> k.emits, fetches |-> 1,
              caught |-> TRUE, unhandled |-> k.unhandled, stored |-> FALSE,
              state |-> state]

(***************************************************************************)
(* The cache's timer, from the options of lines 97-101.                    *)
(***************************************************************************)
\* a variant: the check period handed over as the ttl
StdTTLIsCheckPeriod == CheckPeriod

\* stdTTL: this.cacheTTL, in seconds
StdTTL == cacheTTL
\* the check timer runs every checkperiod seconds
Period == CheckPeriod * TicksPerSecond
\* node-cache: an entry is expired once its time of expiry lies before now
Expired(c) == c.present /\ StdTTL # 0 /\ c.age > StdTTL * TicksPerSecond

(***************************************************************************)
(* The receiver of Spec: the fields of lines 84-101, no listener yet.      *)
(***************************************************************************)
Receivers ==
    {c \in ConfigSpace : ~MissingParameter(c) /\ c.cacheTTL # Some(0)}

Init ==
    /\ config \in Receivers
    /\ ctor = "fields"
    /\ cacheTTL = CacheTTLOf(config)
    /\ keypadPin = config.keypadPin
    /\ hasCache = TRUE
    /\ cache = EmptyCache
    /\ phase = 0
    /\ errorListeners = 0
    /\ cacheListeners = FALSE
    /\ token = Undef /\ userId = Undef /\ siteId = Undef
    /\ targetState = None
    /\ initPc = "idle"
    /\ initError = "none"
    /\ chain = IdleChain
    /\ cmd = IdleCmd
    /\ refreshes = 0
    /\ intervened = FALSE
    /\ last = Eff

fixed == <<config, ctor, cacheTTL, keypadPin, hasCache, errorListeners>>

session == <<token, userId, siteId>>

\* init(), lines 108-132: registers the listeners and awaits login()
CallInit ==
    /\ initPc = "idle"
    /\ chain = IdleChain
    /\ cacheListeners' = TRUE
    /\ initPc' = "login"
    /\ chain' = [IdleChain EXCEPT !.by = "init", !.pc = "login"]
    /\ last' = [Eff EXCEPT !.op = "init", !.remote = "login"]
    /\ UNCHANGED <<fixed, cache, phase, token, userId, siteId, targetState,
                   initError, cmd, refreshes, intervened>>

\* login() called again by the owner of the instance (a re-login)
CallLogin ==
    /\ chain = IdleChain
    /\ initPc # "idle"
    /\ chain' = [IdleChain EXCEPT !.by = "host", !.pc = "login"]
    /\ intervened' = TRUE
    /\ last' = [Eff EXCEPT !.op = "login", !.remote = "login"]
    /\ UNCHANGED <<fixed, cache, phase, cacheListeners, token, userId, siteId,
                   targetState, initPc, initError, cmd, refreshes>>

\* login() has ended (thrown, or returned after getSyncInfo()): its caller goes on
LoginEnds(threw, op, resp, before) ==
    LET tokenWas == IF chain.pc = "sync" THEN chain.token ELSE token
        userWas == IF chain.pc = "sync" THEN chain.userId ELSE userId
    IN
    IF chain.by = "init"
    THEN LET t == InitAfterLogin(threw, cache, cacheListeners) IN
         /\ initPc' = t.pc
         /\ initError' = t.error
         /\ cache' = t.cache
         /\ last' = [Eff EXCEPT !.op = op, !.resp = resp, !.siteBefore = before,
                                !.tokenBefore = tokenWas, !.userBefore = userWas,
                                !.ret = IF threw THEN "Error" ELSE "ok",
                                !.emits = t.emits, !.fetches = t.fetches,
                                !.value = t.state,
                                !.remote = t.remote]
    ELSE /\ UNCHANGED <<initPc, initError, cache>>
         /\ last' = [Eff EXCEPT !.op = op, !.resp = resp, !.siteBefore = before,
                                !.tokenBefore = tokenWas, !.userBefore = userWas,
                                !.ret = IF threw THEN "Error" ELSE "ok"]

\* the login request ends with resp (line 193)
LoginResponse(resp) ==
    /\ chain.pc = "login"
    /\ LET l == Login(resp, token, userId) IN
       /\ token' = l.token
       /\ userId' = l.userId
       /\ IF l.threw
          THEN /\ chain' = IdleChain
               /\ LoginEnds(TRUE, "loginResponse", resp, siteId)
          ELSE \* await this.getSyncInfo(): its request goes out
               /\ chain' = [chain EXCEPT !.pc = "sync", !.token = token,
                                         !.userId = userId]
               /\ last' = [Eff EXCEPT !.op = "loginResponse", !.resp = resp,
                                      !.tokenBefore = token, !.userBefore = userId,
                                      !.siteBefore = siteId,
                                      !.remote = "getSyncInfo"]
               /\ UNCHANGED <<initPc, initError, cache>>
    /\ UNCHANGED <<fixed, phase, cacheListeners, siteId, targetState, cmd,
                   refreshes, intervened>>

\* the getSyncInfo request of login() ends with resp (line 230)
SyncResponse(resp) ==
    /\ chain.pc = "sync"
    /\ LET g == GetSyncInfo(resp, siteId) IN
       /\ siteId' = g.siteId
       /\ chain' = IdleChain
       /\ LoginEnds(g.threw, "syncResponse", resp, siteId)
    /\ UNCHANGED <<fixed, phase, cacheListeners, token, userId, targetState,
                   cmd, refreshes, intervened>>

\* setState(status), called by the accessory layer
CallSetState(status) ==
    /\ LET r == SetState(status, cache) IN
       /\ targetState' = r.targetState
       /\ last' = [Eff EXCEPT !.op = "setState", !.arg = Some(status), !.ret = r.ret,
                              !.remote = IF r.sent THEN "armSite" ELSE "none"]
    /\ intervened' = TRUE
    /\ UNCHANGED <<fixed, cache, phase, cacheListeners, token, userId, siteId,
                   initPc, initError, chain, cmd, refreshes>>

\* statusCache.set('status', v) by a holder of the public field: the only writes
\* that reach node-cache, whose 'set' event runs the listener of init()
CacheSetExt(v) ==
    /\ hasCache
    /\ cache' = NodeCacheSet(v)
    /\ last' = [Eff EXCEPT !.op = "set", !.stored = TRUE, !.value = v,
                           !.emits = IF cacheListeners THEN OnSet(v) ELSE << >>,
                           !.payload = IF cacheListeners THEN OnSetPayload(v)
                                       ELSE << >>]
    /\ intervened' = TRUE
    /\ UNCHANGED <<fixed, phase, cacheListeners, token, userId, siteId, targetState,
                   initPc, initError, chain, cmd, refreshes>>

\* a clock tick passes
Advance ==
    /\ phase < Period
    /\ phase' = phase + 1
    /\ cache' = IF cache.present THEN [cache EXCEPT !.age = @ + 1] ELSE cache
    /\ last' = [Eff EXCEPT !.op = "advance"]
    /\ UNCHANGED <<fixed, cacheListeners, token, userId, siteId, targetState,
                   initPc, initError, chain, cmd, refreshes, intervened>>

\* node-cache drops an expired entry and emits 'expired'; the listener of
\* init(), when registered, runs to the end of its promise chain
ExpireEntry(op) ==
    IF cacheListeners
    THEN LET h == ExpiredHandler(NodeCacheDel(cache)) IN
         /\ cache' = h.cache
         /\ refreshes' = (refreshes + h.fetches) % 2
         /\ last' = [Eff EXCEPT !.op = op, !.expired = TRUE, !.age = cache.age,
                                !.fetches = h.fetches, !.emits = h.emits,
                                !.caught = h.caught, !.unhandled = h.unhandled,
                                !.stored = h.stored, !.value = h.state]
    ELSE /\ cache' = NodeCacheDel(cache)
         /\ UNCHANGED refreshes
         /\ last' = [Eff EXCEPT !.op = op, !.expired = TRUE, !.age = cache.age]

\* the check timer runs (every checkperiod seconds)
CheckData ==
    /\ phase = Period
    /\ phase' = 0
    /\ IF Expired(cache)
       THEN ExpireEntry("checkData")
       ELSE /\ UNCHANGED <<cache, refreshes>>
            /\ last' = [Eff EXCEPT !.op = "checkData"]
    /\ UNCHANGED <<fixed, cacheListeners, token, userId, siteId, targetState,
                   initPc, initError, chain, cmd, intervened>>

\* the entry expires, with the clock left out: at any moment after its set
Expire ==
    /\ cache.present
    /\ StdTTL # 0
    /\ ExpireEntry("expire")
    /\ UNCHANGED <<fixed, phase, cacheListeners, token, userId, siteId,
                   targetState, initPc, initError, chain, cmd, intervened>>

\* armBeamsOnly(), called by the accessory layer: the request of line 357
CallArmBeamsOnly ==
    /\ cmd = IdleCmd
    /\ LET a == ArmBeamsOnly IN
       /\ cmd' = [by |-> "armBeamsOnly", pc |-> "armSite"]
       /\ last' = [Eff EXCEPT !.op = "armBeamsOnly", !.remote = "armSite",
                              !.arm = a.arm, !.pin = a.pin]
    /\ intervened' = TRUE
    /\ UNCHANGED <<fixed, cache, phase, cacheListeners, session, targetState,
                   initPc, initError, chain, refreshes>>

\* disarmSite(), called by the accessory layer: up to the request of line 402
CallDisarmSite ==
    /\ cmd = IdleCmd
    /\ LET d == DisarmSite(keypadPin) IN
       /\ cmd' = IF d.sent THEN [by |-> "disarmSite", pc |-> "armSite"] ELSE IdleCmd
       /\ last' = [Eff EXCEPT !.op = "disarmSite",
                              !.ret = IF d.threw THEN "Error" ELSE "none",
                              !.remote = IF d.sent THEN "armSite" ELSE "none",
                              !.arm = d.arm, !.pin = d.pin]
    /\ intervened' = TRUE
    /\ UNCHANGED <<fixed, cache, phase, cacheListeners, session, targetState,
                   initPc, initError, chain, refreshes>>

\* the armSite request of a command ends with resp (lines 357-365, 402-410)
ArmResponse(resp) ==
    /\ cmd.pc = "armSite"
    /\ IF ArmSiteSucceeded(resp)
       THEN \* await this.getSyncInfo(): its request goes out
            /\ cmd' = [cmd EXCEPT !.pc = "sync"]
            /\ last' = [Eff EXCEPT !.op = "armResponse", !.resp = resp,
                                   !.remote = "getSyncInfo"]
       ELSE /\ cmd' = IdleCmd
            /\ last' = [Eff EXCEPT !.op = "armResponse", !.resp = resp,
                                   !.ret = "Error"]
    /\ UNCHANGED <<fixed, cache, phase, cacheListeners, session, targetState,
                   initPc, initError, chain, refreshes, intervened>>

\* the getSyncInfo request of a command ends with resp (lines 360, 405)
ArmSyncResponse(resp) ==
    /\ cmd.pc = "sync"
    /\ LET g == GetSyncInfo(resp, siteId) IN
       /\ siteId' = g.siteId
       /\ IF g.threw
          THEN /\ cmd' = IdleCmd
               /\ last' = [Eff EXCEPT !.op = "armSyncResponse", !.resp = resp,
                                      !.siteBefore = siteId, !.ret = "Error"]
          ELSE \* await this.getStateInfo(): its request goes out
               /\ cmd' = [cmd EXCEPT !.pc = "stateInfo"]
               /\ last' = [Eff EXCEPT !.op = "armSyncResponse", !.resp = resp,
                                      !.siteBefore = siteId,
                                      !.remote = "getStateInfo"]
    /\ UNCHANGED <<fixed, cache, phase, cacheListeners, token, userId, targetState,
                   initPc, initError, chain, refreshes, intervened>>

\* the getStateInfo request of a command ends with resp (lines 361-362, 406-407)
StateInfoResponse(resp) ==
    /\ cmd.pc = "stateInfo"
    /\ LET info == GetStateInfo(resp) IN
       /\ cache' = IF info.threw THEN cache ELSE CommandResync(cache, info)
       /\ last' = [Eff EXCEPT !.op = "stateInfoResponse", !.resp = resp,
                              !.value = info.value,
                              !.ret = IF info.threw THEN "Error" ELSE "ok"]
    /\ cmd' = IdleCmd
    /\ UNCHANGED <<fixed, phase, cacheListeners, session, targetState,
                   initPc, initError, chain, refreshes, intervened>>

\* getUserPreferences(), called by the owner of the instance (line 304)
CallGetUserPreferences ==
    /\ cmd = IdleCmd
    /\ cmd' = [by |-> "getUserPreferences", pc |-> "prefs"]
    /\ last' = [Eff EXCEPT !.op = "getUserPreferences",
                           !.remote = "getUserPreferences"]
    /\ intervened' = TRUE
    /\ UNCHANGED <<fixed, cache, phase, cacheListeners, session, targetState,
                   initPc, initError, chain, refreshes>>

\* the getUserPreferences request ends with resp (lines 304-314)
PrefsResponse(resp) ==
    /\ cmd.pc = "prefs"
    /\ cmd' = IdleCmd
    /\ last' = [Eff EXCEPT !.op = "prefsResponse", !.resp = resp,
                           !.ret = IF GetUserPreferences(resp).threw
                                   THEN "Error" ELSE "ok"]
    /\ UNCHANGED <<fixed, cache, phase, cacheListeners, session, targetState,
                   initPc, initError, chain, refreshes, intervened>>

\* getState(), called by the accessory layer
CallGetState ==
    /\ LET r == GetState(cache) IN
       last' = [Eff EXCEPT !.op = "getState", !.value = r.value,
                           !.ret = IF r.threw THEN "ReferenceError"
                                   ELSE IF r.value = UndefState THEN "undefined"
                                   ELSE "state"]
    /\ intervened' = TRUE
    /\ UNCHANGED <<fixed, cache, phase, cacheListeners, session, targetState,
                   initPc, initError, chain, cmd, refreshes>>

(***************************************************************************)
(* Spec: every caller, the clock left out (an entry may expire at any      *)
(* moment).                                                                *)
(***************************************************************************)
Next ==
    \/ CallInit
    \/ CallLogin
    \/ \E resp \in LoginResponses : LoginResponse(resp)
    \/ \E resp \in SyncResponses : SyncResponse(resp)
    \/ \E status \in ArmingStates : CallSetState(status)
    \/ \E v \in StateValues : CacheSetExt(v)
    \/ Expire

Spec == Init /\ [][Next]_vars

(***************************************************************************)
(* SpecCmd: the session and the commands: login() and its re-runs, the     *)
(* commands and queries with their resynchronisation, and a cache that is  *)
(* written with a state of the site and expires.                           *)
(***************************************************************************)
NextCmd ==
    \/ CallInit
    \/ CallLogin
    \/ \E resp \in LoginResponses : LoginResponse(resp)
    \/ \E resp \in SyncResponses : SyncResponse(resp)
    \/ CallGetState
    \/ CallArmBeamsOnly
    \/ CallDisarmSite
    \/ \E resp \in ArmResponses : ArmResponse(resp)
    \/ \E resp \in SyncResponses : ArmSyncResponse(resp)
    \/ \E resp \in StateInfoResponses : StateInfoResponse(resp)
    \/ CallGetUserPreferences
    \/ \E resp \in PrefsResponses : PrefsResponse(resp)
    \/ \E status \in {MaxArmingState} : CallSetState(status)
    \/ \E v \in StateInfoStates : CacheSetExt(v)
    \/ Expire

SpecCmd == Init /\ [][NextCmd]_vars

(***************************************************************************)
(* SpecTTL: the cache under the clock: init(), the writes to the cache,    *)
(* the clock ticks and the check timer.                                    *)
(***************************************************************************)
NextTTL ==
    \/ CallInit
    \/ \E resp \in LoginResponses : LoginResponse(resp)
    \/ \E resp \in SyncResponses : SyncResponse(resp)
    \/ \E v \in StateValues : CacheSetExt(v)
    \/ Advance
    \/ CheckData

SpecTTL == Init /\ [][NextTTL]_vars

\* the timers of the process run: the clock advances and the check timer fires
SpecTTLFair == SpecTTL /\ WF_vars(Advance) /\ WF_vars(CheckData)

(***************************************************************************)
(* The claims.                                                             *)
(***************************************************************************)
\* the alarm section of the cached state, as setState would read it
CachedAlarm == NodeCacheGet(cache).alarm
HasCachedAlarm == TruthyState(NodeCacheGet(cache)) /\ TruthyAlarm(CachedAlarm)
NonEmptyAlarm(state) == TruthyState(state) /\ state.alarm.kind = "full"

\* C1: setState(s) called while the cached alarm's armingState equals s issues
\* no remote command, returns null and leaves targetState cleared.
C1_AlreadyInState ==
    (/\ last.op = "setState"
     /\ HasCachedAlarm
     /\ ArmingStateOf(CachedAlarm) = last.arg)
        => (last.remote = "none" /\ last.ret = "null" /\ targetState = None)

\* C2: setState(any) called while the cached alarm is NOT_READY with FAULT
\* returns an error value and issues no remote command.
C2_NotReady ==
    (/\ last.op = "setState"
     /\ HasCachedAlarm
     /\ ArmingStateOf(CachedAlarm) = Some(NOT_READY)
     /\ FaultStatusOf(CachedAlarm) = Some(FAULT))
        => (last.ret = "Error" /\ last.remote = "none")

\* C3: a write to the status cache whose value has a falsy or empty alarm
\* section is stored and emits no 'state'; 'state' is emitted only for a value
\* with a non-empty alarm section.
C3_NotificationFiltering ==
    last.op = "set"
        => /\ last.stored
           /\ ~NonEmptyAlarm(last.value) => Count(last.emits, "state") = 0
           /\ Count(last.emits, "state") > 0 => NonEmptyAlarm(last.value)

\* C4: a failure of the refresh started by the expiry of the entry leaves the
\* cache empty and emits exactly one 'error'.
C4_OneRecoverySignal ==
    (last.expired /\ last.caught)
        => (~cache.present /\ Count(last.emits, "error") = 1)

\* C5: an entry expires no earlier than cacheTTL seconds and no later than
\* cacheTTL + checkperiod seconds after the set that stored it, and the
\* 'expired' listener calls getStatusFromDevice exactly once.
C5_ExpiryWindow ==
    /\ last.expired
          => /\ last.age >= cacheTTL * TicksPerSecond
             /\ last.age <= (cacheTTL + CheckPeriod) * TicksPerSecond
    /\ cache.present => cache.age <= (cacheTTL + CheckPeriod) * TicksPerSecond
    /\ (last.expired /\ cacheListeners) => last.fetches = 1

C5_ExpiredInsideWindow ==
    /\ last.op = "checkData"
    /\ last.expired
    /\ cacheListeners
    /\ cacheTTL = DefaultTTL
    /\ last.age = cacheTTL * TicksPerSecond + 1
    /\ last.fetches = 1

\* C6: a configuration without username or without password makes the
\* constructor throw, with no cache created, init() not started and no request
\* issued.
C6_MissingCredentials ==
    (ctor # "new" /\ (FalsyStr(config.username) \/ FalsyStr(config.password)))
        => /\ ctor = "Error"
           /\ ~hasCache
           /\ initPc = "idle"
           /\ chain = IdleChain
           /\ last.remote = "none"
           /\ last.fetches = 0

C6_ThrewWithoutUsername ==
    /\ ctor = "Error"
    /\ config.username = Undef
    /\ config.password = "b"
    /\ ~hasCache

\* C7: getSyncInfo stores the id of the first entry of masterSites exactly when
\* the response has status SUCCESS and a non-empty masterSites; otherwise it
\* fails and siteId keeps its value (unset after a first login).
C7_SyncInfoSiteId ==
    last.op = "syncResponse"
        => LET r == last.resp IN
           IF r.ok /\ r.status = "SUCCESS" /\ r.hasSites /\ r.sites # << >>
           THEN siteId = Head(r.sites) /\ last.ret = "ok"
           ELSE siteId = last.siteBefore /\ last.ret = "Error"

C7_FirstLoginEmptySites ==
    /\ last.op = "syncResponse"
    /\ last.resp.status = "SUCCESS"
    /\ last.resp.hasSites
    /\ last.resp.sites = << >>
    /\ last.siteBefore = Undef
    /\ token = "T1"
    /\ siteId = Undef

\* C8: once login has failed in init(), with no caller intervening: 'init' and
\* 'state' are not emitted, the cache stays empty, and no login request and no
\* getStatusFromDevice call is made.
C8_InitFailureTerminal ==
    (initPc = "failed" /\ initError = "Login failed" /\ ~intervened)
        => /\ Count(last.emits, "init") = 0
           /\ Count(last.emits, "state") = 0
           /\ ~cache.present
           /\ last.remote = "none"
           /\ last.fetches = 0
           /\ chain = IdleChain

C8_TimerRanAfterFailure ==
    /\ initPc = "failed"
    /\ initError = "Login failed"
    /\ ~intervened
    /\ last.op = "checkData"

\* C9: a setState call that has to send a command (no cached alarm, or one that
\* neither equals the request nor is NOT_READY with FAULT) issues it and hands
\* its caller null or an error value, never a thrown fault.
C9_CommandErrorReturned ==
    (/\ last.op = "setState"
     /\ \/ ~HasCachedAlarm
        \/ /\ ArmingStateOf(CachedAlarm) # last.arg
           /\ ~(/\ ArmingStateOf(CachedAlarm) = Some(NOT_READY)
                /\ FaultStatusOf(CachedAlarm) = Some(FAULT)))
        => (last.remote = "armSite" /\ last.ret \in {"null", "Error"})

\* C10: targetState is unset whenever no setState call is executing (a setState
\* call is one step, so: in every state).
C10_TargetStateTransient == targetState = None

\* C11: disarmSite() needs a keypad pin. Called with no keypadPin configured
\* it ends in an error and sends no armSite request; called with a keypadPin
\* configured it sends an armSite request with arm = false and that pin.
C11_DisarmNeedsPin ==
    last.op = "disarmSite" =>
        IF FalsyStr(keypadPin)
        THEN last.ret = "Error" /\ last.remote = "none"
        ELSE last.remote = "armSite" /\ last.arm = "false" /\ last.pin = keypadPin

\* C12: after the armSite request of a command has succeeded, getSyncInfo and
\* then getStateInfo are called, in that order, before the command ends, and
\* the status cache then holds the state that getStateInfo returned; when the
\* armSite request has not succeeded, neither of the two is called.
C12_ResyncAfterCommand ==
    /\ last.op = "armResponse" /\ ArmSiteSucceeded(last.resp) =>
           last.remote = "getSyncInfo" /\ cmd.pc = "sync"
    /\ last.op = "armResponse" /\ ~ArmSiteSucceeded(last.resp) =>
           last.remote = "none" /\ cmd = IdleCmd
    /\ last.op = "armSyncResponse" /\ last.ret # "Error" =>
           last.remote = "getStateInfo" /\ cmd.pc = "stateInfo"
    /\ last.op = "stateInfoResponse" /\ last.ret = "ok" =>
           cache.present /\ cache.value = last.resp.state

\* C13: after a refresh of the 'expired' listener has failed, the refresh cycle
\* goes on: unless a caller writes the cache in between, the listener
\* eventually calls getStatusFromDevice again at a later run of the check timer.
C13_RefreshContinues ==
    \A b \in {0, 1} :
        (last.expired /\ last.caught /\ refreshes = b)
            ~> (refreshes # b \/ last.op = "set")

C15_AbsentUntilRefreshed ==
    /\ last.op = "getState" /\ ~cache.present => last.ret = "undefined"
    /\ last.stored /\ last.op # "set" => last.expired

C17_NoStateOnFailure ==
    /\ last.op \in {"loginResponse", "syncResponse"} /\ last.ret = "Error" =>
           Count(last.emits, "state") = 0
    /\ last.caught => Count(last.emits, "state") = 0
    /\ Count(last.emits, "state") > 0 => last.stored

C17_RefreshFailedSilently ==
    /\ last.expired
    /\ last.fetches = 1
    /\ last.caught
    /\ ~cache.present
    /\ Count(last.emits, "state") = 0

C19_OnlyLoginWrites ==
    [][session' # session => last'.op \in {"loginResponse", "syncResponse"}]_vars

\* C19 (amended): token and userId are changed only by the step of login()
\* that handles a SUCCESS response carrying a token; siteId is changed only
\* by a step of getSyncInfo(), which runs inside login() and after the
\* successful armSite request of a command.
C19_SessionWriters ==
    [][/\ token' # token \/ userId' # userId =>
            /\ last'.op = "loginResponse"
            /\ last'.resp.ok
            /\ last'.resp.status = "SUCCESS"
            /\ ~FalsyStr(last'.resp.token)
       /\ siteId' # siteId => last'.op \in {"syncResponse", "armSyncResponse"}]_vars

C19_CommandChangedSite ==
    /\ last.op = "armSyncResponse"
    /\ last.siteBefore # Undef
    /\ siteId # last.siteBefore
    /\ token # Undef

====
